---- MODULE Spec2Model ----
(***************************************************************************)
(* EnvValidation (src/unnamed/part_000): discovery of validation schemas   *)
(* in configuration modules on disk and validation of an environment bag   *)
(* against every discovered schema, with lifecycle hooks.                  *)
(*                                                                         *)
(* JavaScript values are modelled as follows.                              *)
(*  - a file name is the sequence of its dot-separated segments:           *)
(*    "db.config.ts" is <<"db", "config", "ts">>;                          *)
(*  - a RegExp is an object [id, source]; the patterns used are non-global *)
(*    and non-sticky, so RegExp.test is a function of source and string;   *)
(*  - an environment bag is an object [ref, value]: ref is its identity,   *)
(*    value a record from variable names to values;                        *)
(*  - undefined, null and false are the strings of those names.            *)
(***************************************************************************)
EXTENDS Integers, Sequences, FiniteSets, TLC

VARIABLES
    instance,             \* EnvValidation._instance has been constructed
    resolution_paths,     \* this.resolution_paths
    config_file_filters,  \* this.config_file_filters
    hooks,                \* the Hookable registry: kind -> callbacks, in registration order
    fs,                   \* the directories on disk: directory -> listing
    pc,                   \* phase of the validateEnv call in progress
    config,               \* the bag passed to validateEnv
    scan,                 \* the array resolveConfigValidationSchema maps over
    scan_len,             \* the length of that array when map began
    scan_live,            \* this.resolution_paths is still that array
    path_i,               \* index into scan of the next path to resolve
    per_path,             \* the schema arrays the map callback has returned so far
    schemas,              \* result of resolveConfigValidationSchema()
    schema_i,             \* index into schemas of the next schema forEach visits
    trace,                \* what the call has done so far, in order
    thrown,               \* the error the call threw
    result,               \* the object the call returned
    last_call             \* history: the call that has just been made, if recorded

vars == <<instance, resolution_paths, config_file_filters, hooks, fs, pc, config,
          scan, scan_len, scan_live, path_i, per_path, schemas, schema_i, trace,
          thrown, result, last_call>>

-----------------------------------------------------------------------------
(* Bounds of the model *)

MaxPaths == 3      \* longest resolution path list
MaxFilters == 3    \* longest filter list
MaxHooks == 2      \* callbacks registered in all

-----------------------------------------------------------------------------
(* JavaScript values *)

Undefined == "undefined"
Null == "null"

\* Faulty variant: ?? in place of ||: only undefined and null give way to null
Nullish(v) == v \in {Undefined, Null}

\* The values that || replaces by its right operand
Falsy(v) == v \in {Undefined, Null, "false"}

\* Faulty variant: a schema object already in the list is not added again
RECURSIVE FlatUnique(_)
FlatUnique(arrays) ==
    IF arrays = <<>> THEN <<>>
    ELSE LET front == FlatUnique(SubSeq(arrays, 1, Len(arrays) - 1))
         IN  front \o SelectSeq(arrays[Len(arrays)],
                                LAMBDA x : \A k \in 1..Len(front) : front[k] # x)

\* Array.prototype.flat(), depth 1
RECURSIVE Flat(_)
Flat(arrays) ==
    IF arrays = <<>> THEN <<>> ELSE Head(arrays) \o Flat(Tail(arrays))

\* Array.prototype.filter(x => x !== value)
Without(array, value) == SelectSeq(array, LAMBDA x : x # value)

-----------------------------------------------------------------------------
(* The disk *)

Dirname == "/app/env"          \* __dirname
DirnameParent == "/app/env/.." \* what the constructor joins before resolving
AppDir == "/app"
Spare == "/spare"             \* missing from the first disk, empty on the second

PathStrings == {Dirname, AppDir, DirnameParent, Spare}

\* path.resolve(path): the absolute, normalised directory
resolve(path) == IF path = DirnameParent THEN AppDir ELSE path

\* path.resolve(cwd, file)
resolveFile(cwd, file) == [dir |-> cwd, file |-> file]

DbConfig == <<"db", "config", "ts">>
AuthConfig == <<"auth", "config", "js">>
EmptyConfig == <<"empty", "config", "ts">>
FalseConfig == <<"false", "config", "js">>
BadConfig == <<"bad", "config", "js">>
Readme == <<"readme", "md">>
ConfigTs == <<"config", "ts">>

FileNames == {DbConfig, AuthConfig, EmptyConfig, FalseConfig, BadConfig, Readme, ConfigTs}

\* Two disks: directory -> fs.readdirSync(directory)
Disk1 == (Dirname :> <<DbConfig, Readme, EmptyConfig, AuthConfig>>) @@
         (AppDir :> <<ConfigTs, AuthConfig, FalseConfig>>)
Disk2 == (Dirname :> <<AuthConfig, BadConfig, DbConfig>>) @@
         (AppDir :> <<Readme, EmptyConfig, DbConfig>>) @@
         (Spare :> <<>>)

Disks == {Disk1, Disk2}

\* What require(file) yields: the module's exports, or the error its load throws.
\* A file that is no JavaScript does not parse.
Module(path) ==
    CASE path.file = DbConfig -> [error |-> Undefined, validationSchema |-> "DB"]
      [] path.file = AuthConfig -> [error |-> Undefined, validationSchema |-> "AUTH"]
      [] path.file = EmptyConfig -> [error |-> Undefined, validationSchema |-> Undefined]
      [] path.file = FalseConfig -> [error |-> Undefined, validationSchema |-> "false"]
      [] path.file = ConfigTs -> [error |-> Undefined, validationSchema |-> "DB"]
      [] path.file = BadConfig -> [error |-> "Error: thrown by bad.config.js",
                                   validationSchema |-> Undefined]
      [] OTHER -> [error |-> "SyntaxError: Unexpected token", validationSchema |-> Undefined]

-----------------------------------------------------------------------------
(* RegExp *)

DefaultSource == "\\.config\\.(ts|js)$"
MdSource == "\\.md$"

DefaultFilter == [id |-> 1, source |-> DefaultSource]  \* the literal of the constructor
MdFilter == [id |-> 2, source |-> MdSource]

Filters == {DefaultFilter, MdFilter}

\* A second object with the source text of the default, new RegExp(filter.source),
\* and a pattern of a third source
JsonSource == "\\.json$"
DefaultAgain == [id |-> 3, source |-> DefaultSource]
JsonFilter == [id |-> 4, source |-> JsonSource]

Patterns == Filters \cup {DefaultAgain, JsonFilter}

\* The pattern a source text compiles to: a dot, then each segment in turn
\* separated by dots, then the end of the string.
Compile(source) ==
    CASE source = DefaultSource -> <<{"config"}, {"ts", "js"}>>
      [] source = MdSource -> <<{"md"}>>
      [] source = JsonSource -> <<{"json"}>>

\* RegExp.prototype.test(file): the string ends with the pattern, dot included
Test(filter, file) ==
    LET pattern == Compile(filter.source)
        n == Len(pattern)
    IN  /\ Len(file) > n
        /\ \A k \in 1..n : file[Len(file) - n + k] \in pattern[k]

-----------------------------------------------------------------------------
(* Joi *)

\* The bags a caller passes
Bags == { [DB_PORT |-> 5432, JWT_SECRET |-> "x"],
          [DB_PORT |-> 80, JWT_SECRET |-> "x"],
          [DB_PORT |-> 5432],
          [DB_PORT |-> 5432, JWT_SECRET |-> "x", NODE_ENV |-> "test"] }

CallerRef == "the caller's object"   \* identity of the object passed in

\* The schema objects the modules export
IsSchema(v) == v \in {"DB", "AUTH"}

\* The keys a Joi.object({...}) schema mentions
SchemaKeys(schema) ==
    CASE schema = "DB" -> <<"DB_PORT">>
      [] schema = "AUTH" -> <<"JWT_SECRET">>

\* The rule of one key: Joi.number().min(1024).required(), Joi.string().min(1).required()
KeyError(key, value) ==
    IF key \notin DOMAIN value THEN key \o " is required"
    ELSE CASE key = "DB_PORT" ->
                IF value[key] >= 1024 THEN Undefined
                ELSE key \o " must be greater than or equal to 1024"
           [] key = "JWT_SECRET" ->
                IF value[key] # "" THEN Undefined
                ELSE key \o " is not allowed to be empty"

\* schema.validate(value, { allowUnknown }).error: the first error, keys of the
\* schema first, then the keys the schema does not mention
validate(schema, value, allowUnknown) ==
    LET keys == SchemaKeys(schema)
        bad == { k \in 1..Len(keys) : KeyError(keys[k], value) # Undefined }
        unknown == { key \in DOMAIN value : \A k \in 1..Len(keys) : keys[k] # key }
    IN  IF bad # {}
        THEN KeyError(keys[CHOOSE k \in bad : \A j \in bad : k <= j], value)
        ELSE IF ~allowUnknown /\ unknown # {}
             THEN (CHOOSE key \in unknown : TRUE) \o " is not allowed"
             ELSE Undefined

-----------------------------------------------------------------------------
(* Hookable: the registry the class extends *)

validate_before == "validate_before"
configuration_resolved_files == "configuration_resolved_files"
configuration_loaded_schemas == "configuration_loaded_schemas"
validate_schema == "validate_schema"
validate_after == "validate_after"

HookKinds == {validate_before, configuration_resolved_files,
              configuration_loaded_schemas, validate_schema, validate_after}

\* What a registered callback does with the payload it is handed:
\*   "return"    looks at it and returns
\*   "throw"     throws
\*   "popFile"   payload.files.pop()
\*   "pushFile"  payload.files.push("readme.md")
Behaviours(kind) ==
    IF kind = configuration_resolved_files
    THEN {"return", "throw", "popFile", "pushFile"}
    ELSE {"return", "throw"}

\* Callbacks that call back into the instance they observe:
\*   "addPath"     EnvValidation.instance.addResolutionPath("/app"), while the
\*                 list is shorter than MaxPaths
\*   "removePath"  EnvValidation.instance.removeResolutionPath("/app")
\*   "clearPaths"  EnvValidation.instance.clearResolutionPaths()
Mutators == {"addPath", "removePath", "clearPaths"}

\* The hooks that fire before and during resolution
ResolutionKinds == {validate_before, configuration_resolved_files,
                    configuration_loaded_schemas}

NoHooks == [kind \in HookKinds |-> <<>>]

HookCount(registry) ==
    LET RECURSIVE Sum(_)
        Sum(kinds) == IF kinds = {} THEN 0
                      ELSE LET k == CHOOSE k \in kinds : TRUE
                           IN  Len(registry[k]) + Sum(kinds \ {k})
    IN  Sum(HookKinds)

\* One callback run on the objects it can reach. c.files is the array in
\* payload.files, which the callback mutates in place; c.paths is
\* this.resolution_paths, c.scan the array map is iterating and c.live whether
\* the two are one array: push (lines 54-57) grows that one array, filter and
\* [] (lines 74-82) put a new array in the field.
Callback(behaviour, c) ==
    CASE behaviour = "throw" -> [c EXCEPT !.thrown = TRUE]
      [] behaviour = "addPath" ->
            IF Len(c.paths) >= MaxPaths THEN c
            ELSE [c EXCEPT !.paths = Append(c.paths, AppDir),
                           !.scan = IF c.live THEN Append(c.scan, AppDir) ELSE c.scan]
      [] behaviour = "removePath" ->
            [c EXCEPT !.paths = Without(c.paths, AppDir), !.live = FALSE]
      [] behaviour = "clearPaths" -> [c EXCEPT !.paths = <<>>, !.live = FALSE]
      [] behaviour = "popFile" ->
            [c EXCEPT !.files = IF c.files = <<>> THEN <<>>
                                ELSE SubSeq(c.files, 1, Len(c.files) - 1)]
      [] behaviour = "pushFile" -> [c EXCEPT !.files = Append(c.files, Readme)]
      [] OTHER -> c

\* The callbacks of one kind, in registration order; the first that throws ends it
RECURSIVE RunCallbacks(_, _)
RunCallbacks(callbacks, c) ==
    IF callbacks = <<>> \/ c.thrown THEN c
    ELSE RunCallbacks(Tail(callbacks), Callback(Head(callbacks), c))

\* What the callbacks of a trigger can reach besides the payload
Reach == [paths |-> resolution_paths, scan |-> scan, live |-> scan_live]

\* this.trigger(kind, payload) where earlier callbacks of this step left reach
triggerIn(kind, files, reach) ==
    RunCallbacks(hooks[kind], [thrown |-> FALSE, files |-> files, paths |-> reach.paths,
                               scan |-> reach.scan, live |-> reach.live])

\* this.trigger(kind, payload): files is the array the payload carries, if any
trigger(kind, files) == triggerIn(kind, files, Reach)

\* The entry of the trace a trigger leaves: the payload as it was handed over
Triggered(kind, payload) == [op |-> "trigger", hook |-> kind, payload |-> payload]

HookError(kind) == [name |-> "HookError", message |-> kind]
NoError == [name |-> Undefined, message |-> ""]

-----------------------------------------------------------------------------
(* resolveConfigValidationSchema: one resolution path *)

\* Faulty variant: the error of a failed listing is caught and the path skipped
FilesystemErrorCaught(cwd) == NoError

\* What fs.readdirSync throws for a directory it cannot list
FilesystemError(cwd) == [name |-> "ENOENT", message |-> cwd]

\* Faulty variant: the error of a failed load is caught and the path skipped
ModuleLoadErrorCaught(message) == NoError

\* What require throws: the error the module's load raised
ModuleLoadError(message) == [name |-> "ModuleLoadError", message |-> message]

ValidationError(message) ==
    [name |-> "Error", message |-> "Config validation error: " \o message]

\* fs.readdirSync(cwd) throws when the directory is missing
Exists(disk, cwd) == cwd \in DOMAIN disk
readdirSync(disk, cwd) == disk[cwd]

\* Faulty variant: every() in place of some()
passesEveryFilter(file) ==
    \A k \in DOMAIN config_file_filters : Test(config_file_filters[k], file)

passesConfigFileFilters(file) ==
    \E k \in DOMAIN config_file_filters : Test(config_file_filters[k], file)

\* config_files.map(file => require(resolve(cwd, file))): the files are loaded in
\* order; the first load that throws ends the map
requireAll(cwd, files) ==
    LET bad == { k \in 1..Len(files) :
                    Module(resolveFile(cwd, files[k])).error # Undefined }
        stop == IF bad = {} THEN Len(files)
                ELSE CHOOSE k \in bad : \A j \in bad : k <= j
    IN  [ loaded |-> [k \in 1..stop |-> resolveFile(cwd, files[k])],
          error |-> IF bad = {} THEN Undefined
                    ELSE Module(resolveFile(cwd, files[stop])).error ]

\* .map(config => config.validationSchema || null).filter(schema => schema !== null)
exportedSchemas(loaded) ==
    LET exported == [k \in 1..Len(loaded) |->
                        IF Falsy(Module(loaded[k]).validationSchema) THEN Null
                        ELSE Module(loaded[k]).validationSchema]
    IN  Without(exported, Null)

Required(loaded) == [k \in 1..Len(loaded) |-> [op |-> "require", path |-> loaded[k]]]

\* The callback of resolution_paths.map for one path: what it does (trace), the
\* error it throws (NoError if none), the schema array it returns and what its
\* hooks' callbacks left of the path list (reach)
mapPathOn(disk, path) ==
    LET cwd == resolve(path)
        listed == <<[op |-> "readdirSync", path |-> cwd]>>
        config_files == SelectSeq(readdirSync(disk, cwd), passesConfigFileFilters)
        resolved == trigger(configuration_resolved_files, config_files)
        afterResolved ==
            listed \o <<Triggered(configuration_resolved_files, [files |-> config_files])>>
        modules == requireAll(cwd, resolved.files)
        afterRequire == afterResolved \o Required(modules.loaded)
        found == exportedSchemas(modules.loaded)
        loaded == triggerIn(configuration_loaded_schemas, <<>>, resolved)
        afterLoaded ==
            afterRequire \o <<Triggered(configuration_loaded_schemas, [schemas |-> found])>>
    IN  IF ~Exists(disk, cwd)
        THEN [trace |-> listed, thrown |-> FilesystemError(cwd), schemas |-> <<>>,
              reach |-> Reach]
        ELSE IF resolved.thrown
        THEN [trace |-> afterResolved, schemas |-> <<>>,
              thrown |-> HookError(configuration_resolved_files), reach |-> resolved]
        ELSE IF modules.error # Undefined
        THEN [trace |-> afterRequire, thrown |-> ModuleLoadError(modules.error),
              schemas |-> <<>>, reach |-> resolved]
        ELSE IF loaded.thrown
        THEN [trace |-> afterLoaded, schemas |-> <<>>,
              thrown |-> HookError(configuration_loaded_schemas), reach |-> loaded]
        ELSE [trace |-> afterLoaded, thrown |-> NoError, schemas |-> found,
              reach |-> loaded]

\* Faulty variant: a path with no candidate file is left before its hooks
mapPathQuiet(path) ==
    LET r == mapPathOn(fs, path)
    IN  IF r.thrown = NoError /\ Len(r.trace) = 3
        THEN [r EXCEPT !.trace = <<r.trace[1]>>]
        ELSE r

mapPath(path) == mapPathOn(fs, path)

-----------------------------------------------------------------------------
(* The state after the class is loaded, and the operations *)

NoConfig == [ref |-> Undefined, value |-> <<>>]

Idle ==
    /\ pc = "idle"
    /\ config = NoConfig
    /\ scan = <<>>
    /\ scan_len = 0
    /\ scan_live = FALSE
    /\ path_i = 0
    /\ per_path = <<>>
    /\ schemas = <<>>
    /\ schema_i = 0
    /\ trace = <<>>
    /\ thrown = NoError
    /\ result = NoConfig

\* History of the calls the claims about single operations speak of: the accessor
\* and the two remove operations leave a record of the call and of the state it
\* found; a finished validateEnv leaves one where it is remembered. Every other
\* operation wipes the record.
NoCall == [op |-> "none"]

Called(operation, argument) ==
    [op |-> operation, arg |-> argument, existed |-> instance,
     paths |-> resolution_paths, filters |-> config_file_filters]

Init ==
    /\ instance = FALSE
    /\ resolution_paths = <<>>
    /\ config_file_filters = <<>>
    /\ hooks = NoHooks
    /\ fs \in Disks
    /\ Idle
    /\ last_call = NoCall

call == <<pc, config, scan, scan_len, scan_live, path_i, per_path, schemas, schema_i,
          trace, thrown, result>>

\* Faulty variant: every access constructs
getInstanceAnew ==
    /\ pc = "idle"
    /\ instance' = TRUE
    /\ config_file_filters' = config_file_filters \o <<DefaultFilter>>
    /\ resolution_paths' = resolution_paths \o <<Dirname, resolve(DirnameParent)>>
    /\ UNCHANGED <<hooks, fs, call>>
    /\ last_call' = Called("getInstance", Undefined)

\* static get instance(): the constructor runs on the first access only
getInstance ==
    /\ pc = "idle"
    /\ instance' = TRUE
    /\ config_file_filters' =
         IF instance THEN config_file_filters
         ELSE config_file_filters \o <<DefaultFilter>>
    /\ resolution_paths' =
         IF instance THEN resolution_paths
         ELSE resolution_paths \o <<Dirname, resolve(DirnameParent)>>
    /\ UNCHANGED <<hooks, fs, call>>
    /\ last_call' = Called("getInstance", Undefined)

addResolutionPath(path) ==
    /\ instance /\ pc = "idle"
    /\ Len(resolution_paths) < MaxPaths
    /\ resolution_paths' = Append(resolution_paths, path)
    /\ UNCHANGED <<instance, config_file_filters, hooks, fs, call>>
    /\ last_call' = NoCall

addResolutionPaths(paths) ==
    /\ instance /\ pc = "idle"
    /\ Len(resolution_paths) + Len(paths) <= MaxPaths
    /\ resolution_paths' = resolution_paths \o paths
    /\ UNCHANGED <<instance, config_file_filters, hooks, fs, call>>
    /\ last_call' = NoCall

\* Faulty variant: the paths are compared after path.resolve
removeResolvedPath(path) ==
    /\ instance /\ pc = "idle"
    /\ resolution_paths' =
         SelectSeq(resolution_paths, LAMBDA p : resolve(p) # resolve(path))
    /\ UNCHANGED <<instance, config_file_filters, hooks, fs, call>>
    /\ last_call' = Called("removeResolutionPath", path)

removeResolutionPath(path) ==
    /\ instance /\ pc = "idle"
    /\ resolution_paths' = Without(resolution_paths, path)
    /\ UNCHANGED <<instance, config_file_filters, hooks, fs, call>>
    /\ last_call' = Called("removeResolutionPath", path)

clearResolutionPaths ==
    /\ instance /\ pc = "idle"
    /\ resolution_paths' = <<>>
    /\ UNCHANGED <<instance, config_file_filters, hooks, fs, call>>
    /\ last_call' = NoCall

addConfigFileFilter(filter) ==
    /\ instance /\ pc = "idle"
    /\ Len(config_file_filters) < MaxFilters
    /\ config_file_filters' = Append(config_file_filters, filter)
    /\ UNCHANGED <<instance, resolution_paths, hooks, fs, call>>
    /\ last_call' = NoCall

addConfigFileFilters(filters) ==
    /\ instance /\ pc = "idle"
    /\ Len(config_file_filters) + Len(filters) <= MaxFilters
    /\ config_file_filters' = config_file_filters \o filters
    /\ UNCHANGED <<instance, resolution_paths, hooks, fs, call>>
    /\ last_call' = NoCall

\* Faulty variant: the filter is looked for by identity
removeConfigFileFilterByIdentity(filter) ==
    /\ instance /\ pc = "idle"
    /\ config_file_filters' = SelectSeq(config_file_filters, LAMBDA f : f # filter)
    /\ UNCHANGED <<instance, resolution_paths, hooks, fs, call>>
    /\ last_call' = Called("removeConfigFileFilter", filter)

removeConfigFileFilter(filter) ==
    /\ instance /\ pc = "idle"
    /\ config_file_filters' =
         SelectSeq(config_file_filters, LAMBDA f : f.source # filter.source)
    /\ UNCHANGED <<instance, resolution_paths, hooks, fs, call>>
    /\ last_call' = Called("removeConfigFileFilter", filter)

clearConfigFileFilters ==
    /\ instance /\ pc = "idle"
    /\ config_file_filters' = <<>>
    /\ UNCHANGED <<instance, resolution_paths, hooks, fs, call>>
    /\ last_call' = NoCall

\* Hookable.on(kind, callback)
on(kind, behaviour) ==
    /\ instance /\ pc = "idle"
    /\ HookCount(hooks) < MaxHooks
    /\ hooks' = [hooks EXCEPT ![kind] = Append(@, behaviour)]
    /\ UNCHANGED <<instance, resolution_paths, config_file_filters, fs, call>>
    /\ last_call' = NoCall

-----------------------------------------------------------------------------
(* validateEnv(config), step by step *)

\* Faulty variant: the "before" hook is not triggered
beforeMissing(object) == <<>>

\* What the first statement of validateEnv leaves in the trace
before(object) == <<Triggered(validate_before, [config |-> object])>>

\* Faulty variant: the error is passed to the hook and then dropped
neverRethrow(error) == FALSE

\* if (error): the error is wrapped and thrown
rethrow(error) == error # Undefined

\* Faulty variant: the loop stops one schema short
forEachSkipsLast == schema_i >= Len(schemas)

\* forEach has visited every schema
forEachDone == schema_i > Len(schemas)

TypeError == [name |-> "TypeError", message |-> "schema.validate is not a function"]

\* Faulty variant: Joi's default, which rejects a key the schema does not mention
optionsDefault == [allowUnknown |-> FALSE]

\* The options every schema.validate call is given
options == [allowUnknown |-> TRUE]

\* Faulty variant: the loop reads the length of the array at every turn
mapDoneLive == path_i > Len(scan)

\* Array.prototype.map visits the indexes below the length the array had when
\* map was called
mapDone == path_i > scan_len

\* The call begins: the "before" hook, then resolution_paths.map(...) starts over
\* the array that resolution_paths holds at that moment
validateEnv(bag) ==
    /\ instance /\ pc = "idle"
    /\ config' = [ref |-> CallerRef, value |-> bag]
    /\ trace' = before(config')
    /\ LET c == trigger(validate_before, <<>>)
       IN  /\ resolution_paths' = c.paths
           /\ IF c.thrown
              THEN /\ pc' = "failed"
                   /\ thrown' = HookError(validate_before)
                   /\ UNCHANGED <<scan, scan_len, scan_live, path_i>>
              ELSE /\ pc' = "resolving"
                   /\ thrown' = NoError
                   /\ scan' = c.paths
                   /\ scan_len' = Len(c.paths)
                   /\ scan_live' = TRUE
                   /\ path_i' = 1
    /\ last_call' = IF last_call.op = "validateEnv" THEN last_call ELSE NoCall
    /\ UNCHANGED <<instance, config_file_filters, hooks, fs,
                   per_path, schemas, schema_i, result>>

\* The map callback runs for the next path
resolvePath ==
    /\ pc = "resolving"
    /\ ~mapDone
    /\ LET r == mapPath(scan[path_i])
       IN  /\ trace' = trace \o r.trace
           /\ thrown' = r.thrown
           /\ resolution_paths' = r.reach.paths
           /\ scan' = r.reach.scan
           /\ scan_live' = r.reach.live
           /\ IF r.thrown # NoError
              THEN /\ pc' = "failed"
                   /\ UNCHANGED <<path_i, per_path>>
              ELSE /\ pc' = pc
                   /\ path_i' = path_i + 1
                   /\ per_path' = Append(per_path, r.schemas)
    /\ UNCHANGED <<instance, config_file_filters, hooks, fs,
                   config, scan_len, schemas, schema_i, result, last_call>>

\* Faulty variant: the paths are taken off the list as they are scanned, as a
\* loop over shift() would
flatConsuming ==
    /\ pc = "resolving"
    /\ mapDone
    /\ schemas' = Flat(per_path)
    /\ schema_i' = 1
    /\ pc' = "validating"
    /\ resolution_paths' = <<>>
    /\ UNCHANGED <<instance, config_file_filters, hooks, fs,
                   config, scan, scan_len, scan_live, path_i, per_path, trace, thrown,
                   result, last_call>>

\* .flat(): resolveConfigValidationSchema returns and forEach begins
flat ==
    /\ pc = "resolving"
    /\ mapDone
    /\ schemas' = Flat(per_path)
    /\ schema_i' = 1
    /\ pc' = "validating"
    /\ UNCHANGED <<instance, resolution_paths, config_file_filters, hooks, fs,
                   config, scan, scan_len, scan_live, path_i, per_path, trace, thrown,
                   result, last_call>>

\* The forEach callback runs for the next schema
validateSchema ==
    /\ pc = "validating"
    /\ ~forEachDone
    /\ LET schema == schemas[schema_i]
           error == validate(schema, config.value, options.allowUnknown)
       IN  IF ~IsSchema(schema)
           THEN /\ pc' = "failed"
                /\ thrown' = TypeError
                /\ UNCHANGED <<schema_i, trace>>
           ELSE
           /\ trace' = trace \o
                  << [op |-> "validate", schema |-> schema],
                     Triggered(validate_schema,
                               [schema |-> schema, config |-> config, error |-> error]) >>
           /\ IF trigger(validate_schema, <<>>).thrown
              THEN /\ pc' = "failed"
                   /\ thrown' = HookError(validate_schema)
                   /\ UNCHANGED schema_i
              ELSE IF rethrow(error)
              THEN /\ pc' = "failed"
                   /\ thrown' = ValidationError(error)
                   /\ UNCHANGED schema_i
              ELSE /\ pc' = pc
                   /\ thrown' = thrown
                   /\ schema_i' = schema_i + 1
    /\ UNCHANGED <<instance, resolution_paths, config_file_filters, hooks, fs,
                   config, scan, scan_len, scan_live, path_i, per_path, schemas,
                   result, last_call>>

\* Faulty variant: a copy of the bag is returned
returnedCopy(object) == [object EXCEPT !.ref = "a copy"]

\* return config
returned(object) == object

\* Faulty variant: the callbacks of the "after" hook run inside try/catch
validateAfterIsolated ==
    /\ pc = "validating"
    /\ forEachDone
    /\ trace' = Append(trace, Triggered(validate_after, [config |-> config]))
    /\ pc' = "completed"
    /\ thrown' = thrown
    /\ result' = returned(config)
    /\ UNCHANGED <<instance, resolution_paths, config_file_filters, hooks, fs,
                   config, scan, scan_len, scan_live, path_i, per_path, schemas,
                   schema_i, last_call>>

\* Every schema passed: the "after" hook, then the bag is returned
validateAfter ==
    /\ pc = "validating"
    /\ forEachDone
    /\ trace' = Append(trace, Triggered(validate_after, [config |-> config]))
    /\ IF trigger(validate_after, <<>>).thrown
       THEN /\ pc' = "failed"
            /\ thrown' = HookError(validate_after)
            /\ UNCHANGED result
       ELSE /\ pc' = "completed"
            /\ thrown' = thrown
            /\ result' = returned(config)
    /\ UNCHANGED <<instance, resolution_paths, config_file_filters, hooks, fs,
                   config, scan, scan_len, scan_live, path_i, per_path, schemas,
                   schema_i, last_call>>

\* The caller has the result or the error; the call's locals are gone
returnToCaller ==
    /\ pc \in {"completed", "failed"}
    /\ pc' = "idle"
    /\ config' = NoConfig
    /\ scan' = <<>>
    /\ scan_len' = 0
    /\ scan_live' = FALSE
    /\ path_i' = 0
    /\ per_path' = <<>>
    /\ schemas' = <<>>
    /\ schema_i' = 0
    /\ trace' = <<>>
    /\ thrown' = NoError
    /\ result' = NoConfig
    /\ last_call' = NoCall
    /\ UNCHANGED <<instance, resolution_paths, config_file_filters, hooks, fs>>

Call ==
    \/ \E bag \in Bags : validateEnv(bag)
    \/ resolvePath
    \/ flat
    \/ validateSchema
    \/ validateAfter
    \/ returnToCaller

PathLists == {<<>>} \cup { <<p>> : p \in PathStrings }
                    \cup { <<p, q>> : p, q \in PathStrings }

FilterLists == {<<>>} \cup { <<f>> : f \in Filters }
                      \cup { <<f, g>> : f, g \in Filters }

Configure ==
    \/ \E path \in PathStrings : addResolutionPath(path)
    \/ \E paths \in PathLists : addResolutionPaths(paths)
    \/ \E path \in PathStrings : removeResolutionPath(path)
    \/ clearResolutionPaths
    \/ \E filter \in Filters : addConfigFileFilter(filter)
    \/ \E filters \in FilterLists : addConfigFileFilters(filters)
    \/ \E filter \in Filters : removeConfigFileFilter(filter)
    \/ clearConfigFileFilters

\* The class used with no callback registered
Next == getInstance \/ Configure \/ Call

Spec == Init /\ [][Next]_vars

\* The class as constructed, with callbacks registered
NextHooks ==
    \/ getInstance
    \/ \E kind \in HookKinds : \E behaviour \in Behaviours(kind) : on(kind, behaviour)
    \/ Call

SpecHooks == Init /\ [][NextHooks]_vars

\* The caller has the result or the error, and what the call did is remembered
\* for as long as nothing is reconfigured
returnRemembered ==
    /\ pc \in {"completed", "failed"}
    /\ pc' = "idle"
    /\ config' = NoConfig
    /\ scan' = <<>>
    /\ scan_len' = 0
    /\ scan_live' = FALSE
    /\ path_i' = 0
    /\ per_path' = <<>>
    /\ schemas' = <<>>
    /\ schema_i' = 0
    /\ trace' = <<>>
    /\ thrown' = NoError
    /\ result' = NoConfig
    /\ last_call' = [op |-> "validateEnv", arg |-> config.value,
                     paths |-> resolution_paths, filters |-> config_file_filters,
                     thrown |-> thrown, result |-> result,
                     events |-> SelectSeq(trace, LAMBDA e : e.op = "trigger")]
    /\ UNCHANGED <<instance, resolution_paths, config_file_filters, hooks, fs>>

\* The class used with no callback registered, a caller validating the same bag
\* again until it reconfigures
NextRepeat ==
    \/ getInstance
    \/ Configure
    \/ \E bag \in Bags :
          /\ last_call.op = "validateEnv" => bag = last_call.arg
          /\ validateEnv(bag)
    \/ resolvePath
    \/ flat
    \/ validateSchema
    \/ validateAfter
    \/ returnRemembered

SpecRepeat == Init /\ [][NextRepeat]_vars

\* The class as constructed, with callbacks registered that call the path
\* mutators of the instance from inside the hooks of resolution
NextReentrant ==
    \/ getInstance
    \/ \E kind \in ResolutionKinds : \E behaviour \in Mutators : on(kind, behaviour)
    \/ Call

SpecReentrant == Init /\ [][NextReentrant]_vars

PatternLists == {<<>>} \cup { <<f>> : f \in Patterns }
                       \cup { <<f, g>> : f, g \in Patterns }

\* The class with its paths as constructed, its filters reconfigured with
\* patterns of three sources and with two objects of one source
NextFilters ==
    \/ getInstance
    \/ \E filter \in Patterns : addConfigFileFilter(filter)
    \/ \E filters \in PatternLists : addConfigFileFilters(filters)
    \/ \E filter \in Patterns : removeConfigFileFilter(filter)
    \/ clearConfigFileFilters
    \/ Call

SpecFilters == Init /\ [][NextFilters]_vars

-----------------------------------------------------------------------------
(* Reading the trace of the call in progress *)

IsEvent(e, kind) == e.op = "trigger" /\ e.hook = kind

Events(kind) == SelectSeq(trace, LAMBDA e : IsEvent(e, kind))

\* The schema.validate calls made so far
Evaluated == SelectSeq(trace, LAMBDA e : e.op = "validate")

\* resolveConfigValidationSchema has returned its list
Resolved == schema_i >= 1

\* Schema k of the resolved list reports an error for the bag of the call
Fails(k) == validate(schemas[k], config.value, TRUE) # Undefined

AllPass == \A k \in 1..Len(schemas) : ~Fails(k)

FirstFailing ==
    IF AllPass THEN 0
    ELSE CHOOSE k \in 1..Len(schemas) : Fails(k) /\ \A j \in 1..(k - 1) : ~Fails(j)

Terminal == pc \in {"completed", "failed"}

-----------------------------------------------------------------------------
(* C1: in a call whose resolved list has N schemas of which the k-th is the  *)
(* first to fail, the schemas are evaluated in order up to the k-th and no   *)
(* further: while the call runs fewer than k validate_schema hooks have      *)
(* fired, each for a passing schema; the call never completes; and when it   *)
(* has failed exactly k hooks have fired, the k-th (and only the k-th)       *)
(* carrying the error that the thrown error wraps, and validate_after has    *)
(* not fired.                                                                *)
C1_FailFast ==
    (Resolved /\ FirstFailing # 0) =>
        LET k == FirstFailing
            checked == Events(validate_schema)
        IN  /\ pc \in {"validating", "failed"}
            /\ Len(checked) <= k
            /\ Len(Evaluated) = Len(checked)
            /\ \A j \in 1..Len(checked) :
                 /\ Evaluated[j].schema = schemas[j]
                 /\ checked[j].payload.schema = schemas[j]
                 /\ (checked[j].payload.error # Undefined) <=> (j = k)
            /\ pc = "validating" => Len(checked) < k
            /\ pc = "failed" =>
                 /\ Len(checked) = k
                 /\ thrown = ValidationError(checked[k].payload.error)
            /\ Events(validate_after) = <<>>

\* A call has failed at the second of three schemas
C1_Witness ==
    /\ pc = "failed"
    /\ Resolved
    /\ Len(schemas) >= 3
    /\ FirstFailing = 2
    /\ Len(Events(validate_schema)) = 2

(* C2: validate_after fires at most once in a call, only once every schema   *)
(* of the resolved list has been evaluated and has passed; a call that went  *)
(* through validation and ended has fired it iff every schema passed.        *)
C2_AfterIffAllPass ==
    LET after == Events(validate_after)
        checked == Events(validate_schema)
    IN  /\ Len(after) <= 1
        /\ after # <<>> =>
             /\ Resolved
             /\ AllPass
             /\ Len(checked) = Len(schemas)
             /\ \A j \in 1..Len(checked) : checked[j].payload.error = Undefined
        /\ (Terminal /\ Resolved) => (after # <<>> <=> AllPass)
        /\ pc = "completed" <=> after # <<>>

\* A call over two schemas or more has completed and fired validate_after
C2_Witness ==
    /\ pc = "completed"
    /\ Len(schemas) >= 2
    /\ Len(Events(validate_after)) = 1

(* C3: a call goes idle -> resolving -> validating -> completed or failed    *)
(* (failed also from resolving), and from there only back to idle. In the    *)
(* trace validate_before comes first and once, everything resolution does    *)
(* (listings, loads, configuration_resolved_files and                        *)
(* configuration_loaded_schemas) comes before the first schema evaluation    *)
(* and validate_schema, validate_after comes last and at most once, and a    *)
(* call that has completed or failed adds nothing to the trace.              *)
PhaseOf(e) ==
    CASE IsEvent(e, validate_before) -> 1
      [] e.op \in {"readdirSync", "require"} -> 2
      [] IsEvent(e, configuration_resolved_files) -> 2
      [] IsEvent(e, configuration_loaded_schemas) -> 2
      [] e.op = "validate" -> 3
      [] IsEvent(e, validate_schema) -> 3
      [] IsEvent(e, validate_after) -> 4

InPhaseOrder(t) ==
    /\ \A i, j \in 1..Len(t) : i < j => PhaseOf(t[i]) <= PhaseOf(t[j])
    /\ \A i \in 1..Len(t) : PhaseOf(t[i]) = 1 <=> i = 1
    /\ \A i \in 1..Len(t) : PhaseOf(t[i]) = 4 => i = Len(t)

PhaseSteps ==
    { <<"idle", "idle">>, <<"idle", "resolving">>,
      <<"resolving", "resolving">>, <<"resolving", "validating">>,
      <<"resolving", "failed">>,
      <<"validating", "validating">>, <<"validating", "completed">>,
      <<"validating", "failed">>,
      <<"completed", "idle">>, <<"failed", "idle">> }

C3_Phases ==
    [][ /\ <<pc, pc'>> \in PhaseSteps
        /\ pc' # "idle" => trace' # <<>>
        /\ InPhaseOrder(trace')
        /\ pc' = "resolving" => \A i \in 1..Len(trace') : PhaseOf(trace'[i]) <= 2
        /\ pc' = "validating" => \A i \in 1..Len(trace') : PhaseOf(trace'[i]) <= 3
        /\ pc' = "completed" => PhaseOf(trace'[Len(trace')]) = 4
        /\ Terminal => trace' = <<>>
      ]_vars

\* A call that scanned two paths and evaluated two schemas or more has completed
C3_Witness ==
    /\ pc = "completed"
    /\ Len(scan) = 2
    /\ Len(Events(configuration_loaded_schemas)) = 2
    /\ Len(Events(validate_schema)) >= 2
    /\ Len(Events(validate_after)) = 1

-----------------------------------------------------------------------------
(* The part of the trace that belongs to the k-th path of scan *)

\* How many directories had been listed when entry i was written
ListedBy(i) == Cardinality({ q \in 1..i : trace[q].op = "readdirSync" })

Segment(k) ==
    LET at == { i \in 1..Len(trace) : PhaseOf(trace[i]) = 2 /\ ListedBy(i) = k }
    IN  SelectSeq([i \in 1..Len(trace) |-> [at |-> i \in at, entry |-> trace[i]]],
                  LAMBDA x : x.at)

\* The file names loaded for the k-th path, in the order of their loading
Loads(k) ==
    LET required == SelectSeq(Segment(k), LAMBDA x : x.entry.op = "require")
    IN  [n \in 1..Len(required) |-> required[n].entry.path.file]

\* The files the configuration_resolved_files hook of the k-th path carried
Candidates(k) == Events(configuration_resolved_files)[k].payload.files

Listing(k) == fs[resolve(scan[k])]

IsPrefix(s, t) == Len(s) <= Len(t) /\ s = SubSeq(t, 1, Len(s))

-----------------------------------------------------------------------------
(* C4: the list validateEnv validates holds, for every path i of the        *)
(* resolution path list and every entry j of that path's directory listing  *)
(* that passes a filter and exports a schema, that schema, at the position  *)
(* given by the order of the pairs (i, j): path order first, listing order  *)
(* second. It holds nothing else; a pair is never dropped because its path  *)
(* or its schema occurred before.                                           *)
Exported(i, j) == Module(resolveFile(resolve(scan[i]), Listing(i)[j])).validationSchema

Contributions ==
    UNION { { <<i, j>> : j \in { n \in 1..Len(Listing(i)) :
                /\ \E f \in DOMAIN config_file_filters :
                      Test(config_file_filters[f], Listing(i)[n])
                /\ Exported(i, n) \notin {Undefined, Null, "false"} } }
            : i \in 1..Len(scan) }

Precedes(p, q) == p[1] < q[1] \/ (p[1] = q[1] /\ p[2] < q[2])

PlaceOf(p) == Cardinality({ q \in Contributions : Precedes(q, p) }) + 1

C4_AggregationOrder ==
    Resolved =>
        /\ scan = resolution_paths
        /\ Len(schemas) = Cardinality(Contributions)
        /\ \A p \in Contributions : schemas[PlaceOf(p)] = Exported(p[1], p[2])

\* The same path is registered twice and its two schemas are resolved twice
C4_Witness ==
    /\ Resolved
    /\ Len(scan) = 2 /\ scan[1] = scan[2]
    /\ Len(schemas) = 4
    /\ schemas[1] # schemas[2]
    /\ schemas[3] = schemas[1]

(* C5: while a call runs the bag it was given stays the object and the      *)
(* value it was when the call began, and a call that completes returns that *)
(* very object, with that value.                                            *)
C5_SameBagReturned ==
    [][ /\ (pc = "idle" /\ pc' # "idle") =>
              (config'.ref = CallerRef /\ config'.value \in Bags)
        /\ (pc # "idle" /\ pc' # "idle") => config' = config
        /\ pc' = "completed" => result' = config'
      ]_vars

\* A call that evaluated a schema has completed and returned the caller's object
C5_Witness ==
    /\ pc = "completed"
    /\ Len(Events(validate_schema)) >= 1
    /\ result.ref = CallerRef
    /\ result.value \in Bags

(* C6: a listing of a directory that does not exist is the last thing a     *)
(* call does: the call has failed with the error of that listing, for the   *)
(* path it was resolving; no schema was evaluated, also none of those found *)
(* in earlier paths, and neither validate_schema nor validate_after fired.  *)
C6_ListingFailureIsFatal ==
    \A i \in 1..Len(trace) :
        (trace[i].op = "readdirSync" /\ trace[i].path \notin DOMAIN fs) =>
            /\ i = Len(trace)
            /\ pc = "failed"
            /\ thrown = [name |-> "ENOENT", message |-> trace[i].path]
            /\ trace[i].path = resolve(scan[path_i])
            /\ ListedBy(i) = path_i
            /\ Evaluated = <<>>
            /\ Events(validate_schema) = <<>>
            /\ Events(validate_after) = <<>>

\* The second path cannot be listed after the first one yielded schemas
C6_Witness ==
    /\ pc = "failed"
    /\ thrown.name = "ENOENT"
    /\ path_i = 2
    /\ per_path[1] # <<>>

(* C7: the load of a module that throws is the last thing a call does: the  *)
(* call has failed with the error the load raised; the candidates after it  *)
(* and the later paths are not touched, configuration_loaded_schemas has    *)
(* fired for the earlier paths only, and no schema was evaluated.           *)
C7_LoadFailureIsFatal ==
    \A i \in 1..Len(trace) :
        (trace[i].op = "require" /\ Module(trace[i].path).error # Undefined) =>
            /\ i = Len(trace)
            /\ pc = "failed"
            /\ thrown.name = "ModuleLoadError"
            /\ thrown.message = Module(trace[i].path).error
            /\ ListedBy(i) = path_i
            /\ Len(Events(configuration_loaded_schemas)) = path_i - 1
            /\ Evaluated = <<>>
            /\ Events(validate_schema) = <<>>
            /\ Events(validate_after) = <<>>

\* The second path holds a module that throws, with a candidate left after it
C7_Witness ==
    /\ pc = "failed"
    /\ thrown.name = "ModuleLoadError"
    /\ path_i = 2
    /\ per_path[1] # <<>>
    /\ Len(Loads(2)) < Len(Candidates(2))

(* C8: the files a configuration_resolved_files hook carries are exactly   *)
(* the entries of the path's listing whose name matches at least one filter *)
(* of the filter list, in listing order; the modules loaded for the path    *)
(* are those files, in that order, all of them once the path is done (up to *)
(* the one whose load threw otherwise). So an entry that matches no filter  *)
(* is in no payload and is never loaded.                                    *)
Matches(file) ==
    \E filter \in { config_file_filters[k] : k \in DOMAIN config_file_filters } :
        Test(filter, file)

C8_LoadedIffMatches ==
    /\ \A i \in 1..Len(trace) : trace[i].op = "require" => Matches(trace[i].path.file)
    /\ \A k \in 1..Len(Events(configuration_resolved_files)) :
         /\ Candidates(k) = SelectSeq(Listing(k), Matches)
         /\ IsPrefix(Loads(k), Candidates(k))
         /\ k <= Len(per_path) => Loads(k) = Candidates(k)

\* With two filters set, a path is done whose listing holds an entry that matches
\* neither and two entries that match one of them
C8_Witness ==
    /\ Len(config_file_filters) = 2
    /\ config_file_filters[1].source # config_file_filters[2].source
    /\ Len(per_path) >= 1
    /\ Len(Loads(1)) = 2
    /\ \E j \in 1..Len(Listing(1)) : ~Matches(Listing(1)[j])

-----------------------------------------------------------------------------
(* validateEnv as a function of the disk: what a call with the bag, the     *)
(* paths and the filters of the call in progress throws, and the schemas    *)
(* and errors its validate_schema hooks carry                               *)

RECURSIVE resolveOn(_, _)
resolveOn(disk, paths) ==
    IF paths = <<>> THEN [thrown |-> NoError, schemas |-> <<>>]
    ELSE LET first == mapPathOn(disk, Head(paths))
             rest == resolveOn(disk, Tail(paths))
         IN  IF first.thrown # NoError THEN [thrown |-> first.thrown, schemas |-> <<>>]
             ELSE IF rest.thrown # NoError THEN rest
             ELSE [thrown |-> NoError, schemas |-> first.schemas \o rest.schemas]

RECURSIVE validateAll(_, _)
validateAll(list, value) ==
    IF list = <<>> THEN [thrown |-> NoError, checked |-> <<>>]
    ELSE IF ~IsSchema(Head(list)) THEN [thrown |-> TypeError, checked |-> <<>>]
    ELSE LET error == validate(Head(list), value, TRUE)
             this == <<[schema |-> Head(list), error |-> error]>>
             rest == validateAll(Tail(list), value)
         IN  IF error # Undefined
             THEN [thrown |-> ValidationError(error), checked |-> this]
             ELSE [thrown |-> rest.thrown, checked |-> this \o rest.checked]

OutcomeOn(disk) ==
    LET resolved == resolveOn(disk, scan)
    IN  IF resolved.thrown # NoError
        THEN [thrown |-> resolved.thrown, checked |-> <<>>]
        ELSE validateAll(resolved.schemas, config.value)

\* What the call in progress threw and what its validate_schema hooks carried
Outcome ==
    LET checked == Events(validate_schema)
    IN  [ thrown |-> thrown,
          checked |-> [k \in 1..Len(checked) |->
                          [schema |-> checked[k].payload.schema,
                           error |-> checked[k].payload.error]] ]

\* The disk without entry j of the listing of dir
WithoutEntry(disk, dir, j) ==
    [disk EXCEPT ![dir] = SubSeq(@, 1, j - 1) \o SubSeq(@, j + 1, Len(@))]

\* Entry j of dir is a module that loads and exports no schema
ExportsNoSchema(disk, dir, j) ==
    LET module == Module(resolveFile(dir, disk[dir][j]))
    IN  module.error = Undefined /\ module.validationSchema \in {Undefined, Null, "false"}

(* C9: when a call has ended, what it threw (nothing, if it completed) and  *)
(* the schemas and errors its validate_schema hooks carried are what the    *)
(* same call yields on the disk without any one file that loads and exports *)
(* no schema (export missing, or falsy).                                    *)
C9_NoSchemaModuleIsInert ==
    Terminal =>
        \A dir \in DOMAIN fs : \A j \in 1..Len(fs[dir]) :
            ExportsNoSchema(fs, dir, j) => OutcomeOn(WithoutEntry(fs, dir, j)) = Outcome

\* A call has ended that loaded a module with a falsy export and one with none,
\* and evaluated a schema
C9_Witness ==
    /\ Terminal
    /\ Len(Events(validate_schema)) >= 1
    /\ \E i \in 1..Len(trace) :
         trace[i].op = "require" /\ Module(trace[i].path).validationSchema = "false"
    /\ \E i \in 1..Len(trace) :
         /\ trace[i].op = "require"
         /\ Module(trace[i].path).error = Undefined
         /\ Module(trace[i].path).validationSchema = Undefined

-----------------------------------------------------------------------------
(* C10: whatever the configuration_resolved_files callbacks do with the     *)
(* payload, the modules loaded for a path are the entries of its listing    *)
(* that pass the filters, in listing order (all of them once the path is    *)
(* done). The code hands the callbacks the very array it then loads from,   *)
(* so this does not hold.                                                   *)
C10_ObserversCannotAlterFiles ==
    \A k \in 1..Len(Events(configuration_resolved_files)) :
        LET passing == SelectSeq(Listing(k), passesConfigFileFilters)
        IN  /\ IsPrefix(Loads(k), passing)
            /\ k <= Len(per_path) => Loads(k) = passing

-----------------------------------------------------------------------------
(* C11: validating the same bag twice *)

\* The call in progress is a repeat: the same bag as the call before it, and the
\* paths and the filters are what that call left
Repeats ==
    /\ pc # "idle"
    /\ last_call.op = "validateEnv"
    /\ last_call.arg = config.value
    /\ last_call.paths = resolution_paths
    /\ last_call.filters = config_file_filters

-----------------------------------------------------------------------------
(* C12: removeConfigFileFilter *)

\* The places of list whose entry is kept, and the place a kept entry moves to
KeptPlaces(list, Kept(_)) == { i \in DOMAIN list : Kept(list[i]) }

\* after is list without the entries that are not kept, the others in their order
IsFiltered(after, list, Kept(_)) ==
    LET kept == KeptPlaces(list, Kept)
    IN  /\ Len(after) = Cardinality(kept)
        /\ \A i \in kept : after[Cardinality({ j \in kept : j <= i })] = list[i]

\* C12: removeConfigFileFilter(f) removes by source text and not by identity:
\* after it no filter whose source equals the source of f is left, whichever
\* object it is, and the other filters are all there in their relative order.
C12_RemovedBySource ==
    last_call.op = "removeConfigFileFilter" =>
        /\ \A k \in DOMAIN config_file_filters :
              config_file_filters[k].source # last_call.arg.source
        /\ IsFiltered(config_file_filters, last_call.filters,
                      LAMBDA f : f.source # last_call.arg.source)
        /\ resolution_paths = last_call.paths

\* the default filter has been removed by passing another object of its source,
\* from between two filters that stay
C12_Witness ==
    /\ last_call.op = "removeConfigFileFilter"
    /\ last_call.arg = DefaultAgain
    /\ last_call.filters = <<MdFilter, DefaultFilter, JsonFilter>>
    /\ config_file_filters = <<MdFilter, JsonFilter>>

-----------------------------------------------------------------------------
(* C13: a callback that throws *)

\* A callback registered for the kind throws whenever it is run
Throws(kind) == \E k \in DOMAIN hooks[kind] : hooks[kind][k] = "throw"

\* C13: a callback that throws is not isolated: whichever of the five hooks it
\* is registered for, the trigger of that hook is the last thing the call does
\* (no listing, load, schema evaluation or hook event follows), and the call
\* fails with the error of the callback and returns nothing.
C13_HookErrorEndsCall ==
    \A i \in DOMAIN trace :
        (trace[i].op = "trigger" /\ Throws(trace[i].hook)) =>
            /\ i = Len(trace)
            /\ pc = "failed"
            /\ thrown = HookError(trace[i].hook)
            /\ result = NoConfig

\* a callback of configuration_loaded_schemas threw on the first of two paths:
\* the second path was never listed
C13_Witness ==
    /\ pc = "failed"
    /\ thrown = HookError(configuration_loaded_schemas)
    /\ scan_len = 2
    /\ ListedBy(Len(trace)) = 1
    /\ Loads(1) # <<>>

-----------------------------------------------------------------------------
(* C14: keys no schema mentions *)

Mentions(schema) == { SchemaKeys(schema)[k] : k \in DOMAIN SchemaKeys(schema) }

\* The bag with nothing but the keys the schema mentions
Mentioned(value, schema) ==
    [key \in DOMAIN value \cap Mentions(schema) |-> value[key]]

\* C14: a key that a schema does not mention never makes that schema report an
\* error: the error each validate_schema event carries is the error of the bag
\* cut down to the keys the schema mentions, and every bag that agrees with the
\* bag of the call on those keys gets the same verdict from that schema.
C14_UnknownKeysTolerated ==
    \A i \in DOMAIN trace : IsEvent(trace[i], validate_schema) =>
        LET schema == trace[i].payload.schema
            error == trace[i].payload.error
        IN  /\ error = validate(schema, Mentioned(config.value, schema), FALSE)
            /\ \A other \in Bags :
                  Mentioned(other, schema) = Mentioned(config.value, schema)
                      => validate(schema, other, options.allowUnknown) = error

\* a bag with NODE_ENV, which no schema mentions, passed the DB and the AUTH
\* schema, each of which leaves the other's key unmentioned too
C14_Witness ==
    /\ pc = "completed"
    /\ "NODE_ENV" \in DOMAIN config.value
    /\ \E i, j \in DOMAIN trace :
          /\ IsEvent(trace[i], validate_schema) /\ trace[i].payload.schema = "DB"
          /\ IsEvent(trace[j], validate_schema) /\ trace[j].payload.schema = "AUTH"
          /\ trace[i].payload.error = Undefined
          /\ trace[j].payload.error = Undefined

-----------------------------------------------------------------------------
(* C15: what a call leaves behind *)

\* C15: with no callback that calls a mutator, no step of a validateEnv call,
\* from its first statement to its return or its throw, changes the resolution
\* paths or the filters: the call leaves both lists exactly as it found them.
C15_CallLeavesLists ==
    [][ (pc # "idle" \/ pc' # "idle") =>
            /\ resolution_paths' = resolution_paths
            /\ config_file_filters' = config_file_filters ]_vars

\* a call over three paths and two filters has failed on a directory it could not
\* list, and the lists are those it started with
C15_Witness ==
    /\ pc = "failed"
    /\ thrown.name = "ENOENT"
    /\ Len(scan) = 3
    /\ resolution_paths = scan
    /\ Len(config_file_filters) = 2
    /\ ListedBy(Len(trace)) = 3

-----------------------------------------------------------------------------
(* C16: the singleton accessor *)

\* C16: the accessor constructs at most once. Before the first access nothing is
\* seeded; the first access finds no instance and seeds the defaults, the
\* directory of the class and then its parent as paths and the one default
\* filter; every later access finds the instance and leaves the paths and the
\* filters as the caller's mutations made them.
C16_ConstructedOnce ==
    /\ ~instance => (resolution_paths = <<>> /\ config_file_filters = <<>>)
    /\ last_call.op = "getInstance" =>
          /\ instance
          /\ IF last_call.existed
             THEN /\ resolution_paths = last_call.paths
                  /\ config_file_filters = last_call.filters
             ELSE /\ resolution_paths = <<Dirname, AppDir>>
                  /\ config_file_filters = <<DefaultFilter>>

\* the accessor has been used again after the caller replaced the defaults
C16_Witness ==
    /\ last_call.op = "getInstance"
    /\ last_call.existed
    /\ resolution_paths = <<Spare>>
    /\ config_file_filters = <<MdFilter, MdFilter>>

-----------------------------------------------------------------------------
(* C17: the two discovery hooks of a path *)

\* What the call did for the k-th path, in order
Did(k) == [n \in 1..Len(Segment(k)) |-> Segment(k)[n].entry]

\* C17: for each path that has been resolved the call listed the directory, then
\* triggered configuration_resolved_files, then loaded the candidates, then
\* triggered configuration_loaded_schemas with the schemas the path contributes,
\* and did nothing else for that path: the two hooks come as a pair, with the
\* loads between them, before the next directory is listed, also when the path
\* has no candidate. A call that is through resolution has triggered each of the
\* two hooks once per path.
C17_DiscoveryHooksPaired ==
    /\ \A k \in 1..Len(per_path) :
          LET did == Did(k)
              n == Len(did)
          IN  /\ n >= 3
              /\ did[1] = [op |-> "readdirSync", path |-> resolve(scan[k])]
              /\ IsEvent(did[2], configuration_resolved_files)
              /\ \A m \in 3..(n - 1) : did[m].op = "require"
              /\ IsEvent(did[n], configuration_loaded_schemas)
              /\ did[n].payload.schemas = per_path[k]
              /\ n = Len(Candidates(k)) + 3
    /\ Resolved =>
          /\ Len(Events(configuration_resolved_files)) = Len(scan)
          /\ Len(Events(configuration_loaded_schemas)) = Len(scan)

\* resolution is over for two paths, the first with no candidate, the second with
\* two loads between its hooks
C17_Witness ==
    /\ Resolved
    /\ Len(scan) = 2
    /\ Candidates(1) = <<>>
    /\ Len(Loads(2)) = 2
    /\ Len(Events(configuration_loaded_schemas)) = 2

-----------------------------------------------------------------------------
(* C18: removeResolutionPath *)

\* C18: removeResolutionPath(p) removes by exact string match: after it no entry
\* equal to p is left, however many there were, and every entry that is another
\* string is still there, in the same relative order, also when it resolves to
\* the directory p resolves to.
C18_RemovedByString ==
    last_call.op = "removeResolutionPath" =>
        /\ \A k \in DOMAIN resolution_paths : resolution_paths[k] # last_call.arg
        /\ IsFiltered(resolution_paths, last_call.paths, LAMBDA p : p # last_call.arg)
        /\ config_file_filters = last_call.filters

\* "/app" has been removed from between two paths that stay, one of them
\* "/app/env/..", which resolves to "/app"
C18_Witness ==
    /\ last_call.op = "removeResolutionPath"
    /\ last_call.arg = AppDir
    /\ last_call.paths = <<DirnameParent, AppDir, Dirname>>
    /\ resolution_paths = <<DirnameParent, Dirname>>

-----------------------------------------------------------------------------
(* C19: an empty path list, an empty filter list *)

Begun == pc # "idle"

Loaded == SelectSeq(trace, LAMBDA e : e.op = "require")

\* Every path of the call is a directory that can be listed
AllListable == \A k \in DOMAIN scan : Exists(fs, resolve(scan[k]))

\* The call loads no module, evaluates no schema and does not fail; when it is
\* over it has returned the bag after one validate_before and one
\* validate_after, the only two things it did if there is no path
SucceedsIdly ==
    /\ Loaded = <<>>
    /\ Evaluated = <<>>
    /\ pc # "failed"
    /\ pc = "completed" =>
          /\ result = config
          /\ Len(Events(validate_before)) = 1
          /\ Len(Events(validate_after)) = 1
          /\ resolution_paths = <<>> =>
                trace = <<Triggered(validate_before, [config |-> config]),
                          Triggered(validate_after, [config |-> config])>>

\* C19 as stated: if the resolution path list or the filter list is empty,
\* validateEnv loads no module, evaluates no schema and succeeds for every bag,
\* with validate_before and validate_after (the only two events when there is
\* no path).
C19_EmptySetsSucceed ==
    (Begun /\ (resolution_paths = <<>> \/ config_file_filters = <<>>)) => SucceedsIdly

\* C19 amended: the same holds if the path list is empty, or the filter list is
\* empty and every path is a directory that can be listed. With no filter the
\* directories are still listed: a path that cannot be listed fails the call with
\* the error of the listing, and then too no module is loaded and no schema
\* evaluated.
C19_EmptySetsSucceedIfListable ==
    /\ (Begun /\ (resolution_paths = <<>> \/ (config_file_filters = <<>> /\ AllListable)))
          => SucceedsIdly
    /\ (Begun /\ config_file_filters = <<>> /\ ~AllListable) =>
          /\ Loaded = <<>>
          /\ Evaluated = <<>>
          /\ pc # "completed"
          /\ pc = "failed" => thrown.name = "ENOENT"

\* with no filter a call over two directories that hold configuration modules
\* has returned the bag without loading any
C19_Witness ==
    /\ pc = "completed"
    /\ config_file_filters = <<>>
    /\ scan = <<Dirname, AppDir>>
    /\ ListedBy(Len(trace)) = 2
    /\ config.value = [DB_PORT |-> 80, JWT_SECRET |-> "x"]

-----------------------------------------------------------------------------
(* C20: paths changed while they are scanned *)

\* The directories the call has listed so far, in order
Scanned ==
    LET listed == SelectSeq(trace, LAMBDA e : e.op = "readdirSync")
    IN  [k \in 1..Len(listed) |-> listed[k].path]

\* The entries the path list had when resolution began, the validate_before
\* callbacks having returned: a push grows the array behind them, nothing else
\* touches it
AtStart == SubSeq(scan, 1, scan_len)

\* C20: the paths one call scans are the entries the path list had when
\* resolution began, in their order: whatever the callbacks of
\* configuration_resolved_files and configuration_loaded_schemas add, remove or
\* clear during the call, the directories listed so far are those of the first
\* entries of that list, and when resolution is over they are those of all of
\* them and of no other.
C20_ScanFixedAtStart ==
    Begun =>
        /\ Len(Scanned) <= Len(AtStart)
        /\ \A k \in 1..Len(Scanned) : Scanned[k] = resolve(AtStart[k])
        /\ Resolved => Len(Scanned) = Len(AtStart)

\* a call that began with two paths has returned having scanned those two, and
\* the list a callback changed meanwhile is another
C20_Witness ==
    /\ pc = "completed"
    /\ Len(AtStart) = 2
    /\ Len(Scanned) = 2
    /\ resolution_paths # AtStart
    /\ hooks[validate_before] = <<>>

====
